---- MODULE Spec2Model ----
(***************************************************************************)
(* Object-storage access layer of common-rs (src/s3_generic): object       *)
(* addresses (S3Addr), directory addresses (S3DirectoryAddr), the          *)
(* canonical-location helpers and the credential set (S3Credentials),      *)
(* over an S3-compatible backend.                                          *)
(*                                                                         *)
(* Strings and byte payloads are sequences of one-character strings, so    *)
(* that prefixes, suffixes and JSON text are computed, not assumed.        *)
(***************************************************************************)
EXTENDS Integers, Sequences, FiniteSets, TLC

VARIABLES
    store,          \* backend: [<<bucket, key>> -> bytes], domain = existing objects
    flaky,          \* backend: requests may fail with a transport error
    fifo,           \* backend: answers concurrent requests in issue order
    quirky,         \* backend: a list response may lack its token or its truncation flag
    env,            \* the process environment: variable name -> Option<String>
    creds,          \* the credential statics: "uninit", "poisoned" or the credential set
    impl,           \* CannonicalS3ObjectLocation implementation of the domain type
    op,             \* the operation the caller is running ("none" when idle)
    pc,             \* the caller's position in it
    self,           \* the address the operation runs on
    destination,    \* copy_into's destination address
    continuation_token, \* delete_all / paginator cursor (an Option)
    objects,        \* delete_all: keys of the current page still to delete
    response,       \* the last page response received (an Option)
    awaiting,       \* list / delete requests sent and not yet answered, oldest first
    prefix_names,   \* list_all: keys collected so far
    file_list,      \* copy_into: enumerated keys not yet turned into a request
    inflight,       \* copy_into: copy requests issued and not completed, oldest first
    file_count,     \* copy_into: completed futures counted by count()
    result,         \* what the last finished operation returned
    written,        \* history: last value put at each address by upload_json
    store0,         \* history: the store when the running operation started
    done,           \* history: requests of the operation that completed, with outcome
    calls,          \* history: number of operations started
    failed,         \* history: number of requests of the running operation that failed
    late,           \* history: requests the operation issued after one of its requests failed
    args,           \* history: the caller-supplied prefixes of the running operation
    prev            \* history: the operation that finished before the running one

vars == <<store, flaky, fifo, quirky, env, creds, impl, op, pc, self, destination,
          continuation_token, objects, response, awaiting, prefix_names, file_list,
          inflight, file_count, result, written, store0, done, calls, failed, late,
          args, prev>>

dirLocals == <<continuation_token, objects, response, awaiting, prefix_names, file_list,
               inflight, file_count>>

-----------------------------------------------------------------------------
(* Option<T> *)
None == [some |-> FALSE]
Some(x) == [some |-> TRUE, v |-> x]

(* str::ends_with(char) *)
ends_with(s, c) == Len(s) > 0 /\ s[Len(s)] = c

(* str::starts_with(&str), as the backend's prefix filter and strip_prefix use it *)
starts_with(s, p) == Len(p) <= Len(s) /\ SubSeq(s, 1, Len(p)) = p

(* str::strip_prefix: Some(rest) when s starts with p, None otherwise *)
strip_prefix(s, p) ==
    IF starts_with(s, p) THEN Some(SubSeq(s, Len(p) + 1, Len(s))) ELSE None

(* Option::unwrap_or *)
unwrap_or(o, d) == IF o.some THEN o.v ELSE d

(* Byte value of the characters used, for the backend's key order *)
Ord(c) ==
    CASE c = "/" -> 47 [] c = "." -> 46
      [] c = "0" -> 48 [] c = "1" -> 49 [] c = "2" -> 50 [] c = "3" -> 51
      [] c = "4" -> 52 [] c = "5" -> 53 [] c = "6" -> 54 [] c = "7" -> 55
      [] c = "8" -> 56 [] c = "9" -> 57
      [] c = "a" -> 97 [] c = "b" -> 98 [] c = "c" -> 99 [] c = "j" -> 106
      [] c = "k" -> 107 [] c = "n" -> 110 [] c = "o" -> 111 [] c = "s" -> 115
      [] c = "w" -> 119
      [] OTHER -> 127

-----------------------------------------------------------------------------
(* JSON values, as serde_json sees the uploaded object *)
JNull == [t |-> "null"]
JBool(b) == [t |-> "bool", b |-> b]
JNum(n) == [t |-> "num", n |-> n]
JStr(s) == [t |-> "str", s |-> s]
JArr(items) == [t |-> "arr", items |-> items]
JObj(fields) == [t |-> "obj", fields |-> fields]
Field(k, v) == [k |-> k, v |-> v]

DigitChars == <<"0", "1", "2", "3", "4", "5", "6", "7", "8", "9">>
IsDigit(c) == \E d \in 1..10 : DigitChars[d] = c
DigitVal(c) == (CHOOSE d \in 1..10 : DigitChars[d] = c) - 1

RECURSIVE Digits(_)
Digits(n) == IF n < 10 THEN <<DigitChars[n + 1]>>
             ELSE Digits(n \div 10) \o <<DigitChars[(n % 10) + 1]>>

FormatInt(n) == IF n < 0 THEN <<"-">> \o Digits(0 - n) ELSE Digits(n)

RECURSIVE Repeat(_, _)
Repeat(s, n) == IF n = 0 THEN <<>> ELSE s \o Repeat(s, n - 1)

Indent(n) == Repeat(<<" ", " ">>, n)

RECURSIVE EscapeStr(_)
EscapeStr(s) ==
    IF s = <<>> THEN <<>>
    ELSE (IF Head(s) = "\"" \/ Head(s) = "\\" THEN <<"\\", Head(s)>> ELSE <<Head(s)>>)
         \o EscapeStr(Tail(s))

FormatStr(s) == <<"\"">> \o EscapeStr(s) \o <<"\"">>

(* serde_json::to_string_pretty: two-space indentation, one element per line *)
RECURSIVE Pretty(_, _), PrettyItems(_, _), PrettyFields(_, _)
Pretty(v, ind) ==
    CASE v.t = "null" -> <<"n", "u", "l", "l">>
      [] v.t = "bool" -> IF v.b THEN <<"t", "r", "u", "e">> ELSE <<"f", "a", "l", "s", "e">>
      [] v.t = "num" -> FormatInt(v.n)
      [] v.t = "str" -> FormatStr(v.s)
      [] v.t = "arr" -> IF v.items = <<>> THEN <<"[", "]">>
                        ELSE <<"[", "\n">> \o PrettyItems(v.items, ind + 1)
                             \o <<"\n">> \o Indent(ind) \o <<"]">>
      [] v.t = "obj" -> IF v.fields = <<>> THEN <<"{", "}">>
                        ELSE <<"{", "\n">> \o PrettyFields(v.fields, ind + 1)
                             \o <<"\n">> \o Indent(ind) \o <<"}">>
PrettyItems(items, ind) ==
    Indent(ind) \o Pretty(Head(items), ind)
    \o (IF Len(items) = 1 THEN <<>> ELSE <<",", "\n">> \o PrettyItems(Tail(items), ind))
PrettyFields(fields, ind) ==
    Indent(ind) \o FormatStr(Head(fields).k) \o <<":", " ">> \o Pretty(Head(fields).v, ind)
    \o (IF Len(fields) = 1 THEN <<>> ELSE <<",", "\n">> \o PrettyFields(Tail(fields), ind))

to_string_pretty(v) == Pretty(v, 0)

(* serde_json::from_slice: a recursive-descent read of one value, whitespace
   skipped between tokens, nothing but whitespace allowed after it *)
ParseFail == [ok |-> FALSE, v |-> JNull, i |-> 0]
ParseOk(v, i) == [ok |-> TRUE, v |-> v, i |-> i]

IsWs(c) == c = " " \/ c = "\n" \/ c = "\t" \/ c = "\r"

RECURSIVE SkipWs(_, _)
SkipWs(s, i) == IF i <= Len(s) /\ IsWs(s[i]) THEN SkipWs(s, i + 1) ELSE i

Literal(s, i, word, v) ==
    IF i + Len(word) - 1 <= Len(s) /\ SubSeq(s, i, i + Len(word) - 1) = word
    THEN ParseOk(v, i + Len(word)) ELSE ParseFail

RECURSIVE ParseStr(_, _, _)
ParseStr(s, i, acc) ==
    IF i > Len(s) THEN ParseFail
    ELSE IF s[i] = "\"" THEN ParseOk(JStr(acc), i + 1)
    ELSE IF s[i] = "\\"
         THEN IF i + 1 <= Len(s) /\ (s[i + 1] = "\"" \/ s[i + 1] = "\\")
              THEN ParseStr(s, i + 2, Append(acc, s[i + 1]))
              ELSE ParseFail
    ELSE IF s[i] = "\n" THEN ParseFail
    ELSE ParseStr(s, i + 1, Append(acc, s[i]))

RECURSIVE ParseDigits(_, _, _)
ParseDigits(s, i, n) ==
    IF i <= Len(s) /\ IsDigit(s[i]) THEN ParseDigits(s, i + 1, n * 10 + DigitVal(s[i]))
    ELSE ParseOk(JNum(n), i)

ParseNat(s, i) ==
    IF i > Len(s) \/ ~IsDigit(s[i]) THEN ParseFail
    ELSE IF s[i] = "0" /\ i + 1 <= Len(s) /\ IsDigit(s[i + 1]) THEN ParseFail
    ELSE ParseDigits(s, i, 0)

ParseNum(s, i) ==
    IF s[i] = "-"
    THEN LET r == ParseNat(s, i + 1) IN
         IF r.ok THEN ParseOk(JNum(0 - r.v.n), r.i) ELSE ParseFail
    ELSE ParseNat(s, i)

RECURSIVE ParseValue(_, _), ParseItems(_, _, _), ParseFields(_, _, _)
ParseValue(s, i) ==
    LET j == SkipWs(s, i) IN
    IF j > Len(s) THEN ParseFail
    ELSE CASE s[j] = "n" -> Literal(s, j, <<"n", "u", "l", "l">>, JNull)
           [] s[j] = "t" -> Literal(s, j, <<"t", "r", "u", "e">>, JBool(TRUE))
           [] s[j] = "f" -> Literal(s, j, <<"f", "a", "l", "s", "e">>, JBool(FALSE))
           [] s[j] = "\"" -> ParseStr(s, j + 1, <<>>)
           [] s[j] = "-" \/ IsDigit(s[j]) -> ParseNum(s, j)
           [] s[j] = "[" ->
                LET k == SkipWs(s, j + 1) IN
                IF k <= Len(s) /\ s[k] = "]" THEN ParseOk(JArr(<<>>), k + 1)
                ELSE ParseItems(s, j + 1, <<>>)
           [] s[j] = "{" ->
                LET k == SkipWs(s, j + 1) IN
                IF k <= Len(s) /\ s[k] = "}" THEN ParseOk(JObj(<<>>), k + 1)
                ELSE ParseFields(s, j + 1, <<>>)
           [] OTHER -> ParseFail
ParseItems(s, i, acc) ==
    LET r == ParseValue(s, i) IN
    IF ~r.ok THEN ParseFail
    ELSE LET k == SkipWs(s, r.i) IN
         IF k > Len(s) THEN ParseFail
         ELSE IF s[k] = "," THEN ParseItems(s, k + 1, Append(acc, r.v))
         ELSE IF s[k] = "]" THEN ParseOk(JArr(Append(acc, r.v)), k + 1)
         ELSE ParseFail
ParseFields(s, i, acc) ==
    LET j == SkipWs(s, i) IN
    IF j > Len(s) \/ s[j] # "\"" THEN ParseFail
    ELSE LET key == ParseStr(s, j + 1, <<>>) IN
         IF ~key.ok THEN ParseFail
         ELSE LET c == SkipWs(s, key.i) IN
              IF c > Len(s) \/ s[c] # ":" THEN ParseFail
              ELSE LET r == ParseValue(s, c + 1) IN
                   IF ~r.ok THEN ParseFail
                   ELSE LET k == SkipWs(s, r.i) IN
                        IF k > Len(s) THEN ParseFail
                        ELSE IF s[k] = ","
                             THEN ParseFields(s, k + 1, Append(acc, Field(key.v.s, r.v)))
                        ELSE IF s[k] = "}"
                             THEN ParseOk(JObj(Append(acc, Field(key.v.s, r.v))), k + 1)
                        ELSE ParseFail

from_slice(bytes) ==
    LET r == ParseValue(bytes, 1) IN
    IF r.ok /\ SkipWs(bytes, r.i) > Len(bytes) THEN ParseOk(r.v, r.i) ELSE ParseFail

-----------------------------------------------------------------------------
(* anyhow::Result *)
Ok(x) == [ok |-> TRUE, v |-> x]
Err(e) == [ok |-> FALSE, err |-> e]

(* The error kinds that reach the caller *)
NoSuchKey == [sdk |-> "ServiceError", kind |-> "NoSuchKey"]
Transport == [sdk |-> "DispatchFailure", kind |-> "Transport"]
BodyReadError == [sdk |-> "ByteStreamError", kind |-> "BodyRead"]
Serialization == [sdk |-> "serde_json", kind |-> "Serialization"]

Exists(st, bucket, key) == <<bucket, key>> \in DOMAIN st

(* Backend, GET object: the request fails in transit, or the service answers
   NoSuchKey for an absent key, or the body stream breaks, or the bytes arrive *)
GetObject(st, bucket, key, fault) ==
    IF fault = "transport" THEN Err(Transport)
    ELSE IF ~Exists(st, bucket, key) THEN Err(NoSuchKey)
    ELSE IF fault = "body" THEN Err(BodyReadError)
    ELSE Ok(st[<<bucket, key>>])

(* Backend, PUT object: unconditional overwrite *)
PutObject(st, bucket, key, bytes) ==
    [a \in (DOMAIN st) \cup {<<bucket, key>>} |->
        IF a = <<bucket, key>> THEN bytes ELSE st[a]]

(* Backend, DELETE object *)
DeleteObject(st, bucket, key) ==
    [a \in (DOMAIN st) \ {<<bucket, key>>} |-> st[a]]

(* download_bytes' map_err closure: logs at debug level for NoSuchKey and at
   error level otherwise, and hands the SDK error on unchanged in both branches *)
MapGetErrConflated(e) == Transport
map_get_err(e) ==
    IF e.sdk = "ServiceError" /\ e.kind = "NoSuchKey" THEN e ELSE e

(* S3Addr::download_bytes *)
download_bytes(st, bucket, key, fault) ==
    LET output == GetObject(st, bucket, key, fault) IN
    IF output.ok THEN Ok(output.v)
    ELSE IF output.err = BodyReadError THEN Err(BodyReadError)
    ELSE Err(map_get_err(output.err))

(* S3Addr::upload_bytes: [ret, store] *)
UploadBytesIfAbsent(st, bucket, key, bytes, fault) ==
    IF fault = "transport" THEN [ret |-> Err(Transport), store |-> st]
    ELSE IF Exists(st, bucket, key) THEN [ret |-> Ok(<<>>), store |-> st]
    ELSE [ret |-> Ok(<<>>), store |-> PutObject(st, bucket, key, bytes)]
upload_bytes(st, bucket, key, bytes, fault) ==
    IF fault = "transport" THEN [ret |-> Err(Transport), store |-> st]
    ELSE [ret |-> Ok(<<>>), store |-> PutObject(st, bucket, key, bytes)]

(* S3Addr::delete_file: [ret, store] *)
delete_file(st, bucket, key, fault) ==
    IF fault = "transport" THEN [ret |-> Err(Transport), store |-> st]
    ELSE [ret |-> Ok(<<>>), store |-> DeleteObject(st, bucket, key)]

(* S3Addr::download_json *)
download_json(st, bucket, key, fault) ==
    LET bytes == download_bytes(st, bucket, key, fault) IN
    IF ~bytes.ok THEN bytes
    ELSE LET case == from_slice(bytes.v) IN
         IF case.ok THEN Ok(case.v) ELSE Err(Serialization)

(* S3Addr::upload_json *)
upload_json(st, bucket, key, obj, fault) ==
    LET obj_json_pretty_string == to_string_pretty(obj) IN
    upload_bytes(st, bucket, key, obj_json_pretty_string, fault)

-----------------------------------------------------------------------------
(* CannonicalS3ObjectLocation: the three functions a domain type supplies.
   impl is the implementation in use, any of Impls. *)
Buckets == {"b1", "b2"}
Addrs == {1, 2}
BaseKeys == {<<"k">>, <<"j">>}
Credentials == [cloud_region |-> "sf03", endpoint |-> "sfo3"]
Impls == [key : [Addrs -> BaseKeys], bucket : [Addrs -> Buckets]]

generate_object_key(addr) == impl.key[addr]
generate_bucket(addr) == impl.bucket[addr]
get_credentials(addr) == Credentials

JsonSuffix == <<".", "j", "s", "o", "n">>

(* get_openscrapers_json_key *)
get_openscrapers_json_key(addr) == generate_object_key(addr) \o JsonSuffix

(* S3LocationWithCredentials::from_key_bucket_and_credentials(..).to_string():
   a locator embedding bucket, key and the credential set's endpoint *)
from_key_bucket_and_credentials(key, bucket, credentials) ==
    [bucket |-> bucket, key |-> key, endpoint |-> credentials.endpoint,
     cloud_region |-> credentials.cloud_region]

(* get_s3_json_uri *)
get_s3_json_uri(addr) ==
    LET bucket == generate_bucket(addr)
        key == get_openscrapers_json_key(addr)
        credentials == get_credentials(addr)
    IN from_key_bucket_and_credentials(key, bucket, credentials)

(* The S3Addr each canonical operation builds *)
DownloadAddrRawKey(addr) == <<generate_bucket(addr), generate_object_key(addr)>>
download_openscrapers_object_addr(addr) ==
    LET key == get_openscrapers_json_key(addr)
        bucket == generate_bucket(addr)
    IN <<bucket, key>>
upload_object_addr(addr) ==
    LET key == get_openscrapers_json_key(addr)
        bucket == generate_bucket(addr)
    IN <<bucket, key>>
delete_openscrapers_s3_object_addr(addr) ==
    LET key == get_openscrapers_json_key(addr)
        bucket == generate_bucket(addr)
    IN <<bucket, key>>

-----------------------------------------------------------------------------
(* Inputs of the object-level operations *)
ObjKeys == {<<"k">>, <<"j">>}
Values ==
    { JNull, JBool(TRUE), JNum(0), JNum(0 - 12),
      JStr(<<"a", "\"", "\\">>),
      JArr(<<>>),
      JArr(<<JNum(1), JStr(<<>>)>>),
      JObj(<<Field(<<"a">>, JNum(1))>>),
      JObj(<<Field(<<"a">>, JArr(<<JBool(FALSE)>>)), Field(<<"b">>, JObj(<<>>))>>) }
CanonValues == { JObj(<<Field(<<"a">>, JNum(1))>>), JArr(<<JNum(7)>>) }
RawBytes == { <<"{">>, <<"[", "1", ",", "2", "]">> }

Faults(kinds) == IF flaky THEN kinds \cup {"ok"} ELSE {"ok"}

Forget(f, a) == [x \in (DOMAIN f) \ {a} |-> f[x]]
Remember(f, a, v) == [x \in (DOMAIN f) \cup {a} |-> IF x = a THEN v ELSE f[x]]

EmptyStore == [a \in {} |-> <<>>]
NoAddr == [bucket |-> "", prefix |-> <<>>]
NoResult == [op |-> "none", arg |-> 0, addr |-> <<>>, fault |-> "ok", ret |-> Ok(<<>>)]
NoArgs == [prefix |-> <<>>, dest_prefix |-> <<>>]
NoPrev == [op |-> "none", self |-> NoAddr, ok |-> FALSE, n |-> 0]
NoResponse == None

objFrame == UNCHANGED <<flaky, fifo, quirky, env, creds, impl, op, pc, self, destination, dirLocals,
                        store0, calls, failed, late, args, prev>>

(* One call of S3Addr::download_bytes on (bucket, key) *)
DoDownloadBytes(arg, bucket, key) ==
    \E fault \in Faults({"transport", "body"}) :
        /\ result' = [op |-> "download_bytes", arg |-> arg, addr |-> <<bucket, key>>,
                      fault |-> fault,
                      ret |-> download_bytes(store, bucket, key, fault)]
        /\ UNCHANGED <<store, written, done>>
        /\ objFrame

(* One call of S3Addr::download_json on (bucket, key) *)
DoDownloadJson(arg, bucket, key) ==
    \E fault \in Faults({"transport", "body"}) :
        /\ result' = [op |-> "download_json", arg |-> arg, addr |-> <<bucket, key>>,
                      fault |-> fault,
                      ret |-> download_json(store, bucket, key, fault)]
        /\ UNCHANGED <<store, written, done>>
        /\ objFrame

(* One call of S3Addr::upload_bytes with a raw payload *)
DoUploadBytes(arg, bucket, key, bytes) ==
    \E fault \in Faults({"transport"}) :
        LET r == upload_bytes(store, bucket, key, bytes, fault) IN
        /\ store' = r.store
        /\ result' = [op |-> "upload_bytes", arg |-> arg, addr |-> <<bucket, key>>,
                      fault |-> fault,
                      ret |-> r.ret]
        /\ written' = IF r.ret.ok THEN Forget(written, <<bucket, key>>) ELSE written
        /\ done' = IF r.ret.ok THEN done \ {<<bucket, key>>} ELSE done
        /\ objFrame

(* One call of S3Addr::upload_json *)
DoUploadJson(arg, bucket, key, obj) ==
    \E fault \in Faults({"transport"}) :
        LET r == upload_json(store, bucket, key, obj, fault) IN
        /\ store' = r.store
        /\ result' = [op |-> "upload_json", arg |-> arg, addr |-> <<bucket, key>>,
                      fault |-> fault,
                      ret |-> r.ret]
        /\ written' = IF r.ret.ok THEN Remember(written, <<bucket, key>>, obj) ELSE written
        /\ done' = IF r.ret.ok THEN done \ {<<bucket, key>>} ELSE done
        /\ objFrame

(* One call of S3Addr::delete_file *)
DoDeleteFile(arg, bucket, key) ==
    \E fault \in Faults({"transport"}) :
        LET r == delete_file(store, bucket, key, fault) IN
        /\ store' = r.store
        /\ result' = [op |-> "delete_file", arg |-> arg, addr |-> <<bucket, key>>,
                      fault |-> fault,
                      ret |-> r.ret]
        /\ written' = IF r.ret.ok THEN Forget(written, <<bucket, key>>) ELSE written
        /\ done' = IF r.ret.ok /\ Exists(store, bucket, key)
                   THEN done \cup {<<bucket, key>>} ELSE done
        /\ objFrame

DownloadBytes == \E key \in ObjKeys : DoDownloadBytes(0, "b1", key)
DownloadJson == \E key \in ObjKeys : DoDownloadJson(0, "b1", key)
UploadBytes == \E key \in ObjKeys, bytes \in RawBytes : DoUploadBytes(0, "b1", key, bytes)
UploadJson == \E key \in ObjKeys, obj \in Values : DoUploadJson(0, "b1", key, obj)
DeleteFile == \E key \in ObjKeys : DoDeleteFile(0, "b1", key)

(* download_openscrapers_object *)
DownloadObject ==
    \E addr \in Addrs :
        LET a == download_openscrapers_object_addr(addr) IN DoDownloadJson(addr, a[1], a[2])

(* upload_object *)
UploadObject ==
    \E addr \in Addrs, object \in CanonValues :
        LET a == upload_object_addr(addr) IN DoUploadJson(addr, a[1], a[2], object)

(* delete_openscrapers_s3_object *)
DeleteObjectCanon ==
    \E addr \in Addrs :
        LET a == delete_openscrapers_s3_object_addr(addr) IN DoDeleteFile(addr, a[1], a[2])

(* get_s3_json_uri: pure, its value is what the caller gets *)
GetUri ==
    \E addr \in Addrs :
        /\ result' = [op |-> "get_s3_json_uri", arg |-> addr, addr |-> <<>>, fault |-> "ok",
                      ret |-> Ok(get_s3_json_uri(addr))]
        /\ UNCHANGED <<store, written, done>>
        /\ objFrame

InitCommon ==
    /\ op = "none" /\ pc = "idle"
    /\ self = NoAddr /\ destination = NoAddr
    /\ continuation_token = None /\ objects = <<>> /\ response = NoResponse
    /\ awaiting = <<>>
    /\ prefix_names = <<>> /\ file_list = <<>> /\ inflight = <<>> /\ file_count = 0
    /\ result = NoResult
    /\ written = EmptyStore
    /\ store0 = store
    /\ done = {}
    /\ calls = 0
    /\ failed = 0
    /\ late = 0
    /\ args = NoArgs
    /\ prev = NoPrev

(* Scenarios that neither read the environment nor meet a quirky backend *)
NoCredentialUse == quirky = FALSE /\ env = <<>> /\ creds = <<>>

DefaultImpl == [key |-> [a \in Addrs |-> <<"k">>], bucket |-> [a \in Addrs |-> "b1"]]

InitObj == store = EmptyStore /\ fifo = FALSE /\ NoCredentialUse /\ InitCommon /\ flaky \in BOOLEAN /\ impl = DefaultImpl
NextObj == DownloadBytes \/ DownloadJson \/ UploadBytes \/ UploadJson \/ DeleteFile
SpecObj == InitObj /\ [][NextObj]_vars

InitCanon == store = EmptyStore /\ fifo = FALSE /\ NoCredentialUse /\ InitCommon /\ flaky \in BOOLEAN /\ impl \in Impls
NextCanon == DownloadObject \/ UploadObject \/ DeleteObjectCanon \/ GetUri
SpecCanon == InitCanon /\ [][NextCanon]_vars

-----------------------------------------------------------------------------
(* Backend key order: keys are listed in ascending byte order *)
RECURSIVE KeyLess(_, _)
KeyLess(a, b) ==
    IF a = <<>> THEN b # <<>>
    ELSE IF b = <<>> THEN FALSE
    ELSE IF Ord(Head(a)) # Ord(Head(b)) THEN Ord(Head(a)) < Ord(Head(b))
    ELSE KeyLess(Tail(a), Tail(b))

(* The first n keys of S in ascending order *)
RECURSIVE FirstKeys(_, _)
FirstKeys(S, n) ==
    IF S = {} \/ n = 0 THEN <<>>
    ELSE LET m == CHOOSE x \in S : \A y \in S \ {x} : KeyLess(x, y)
         IN <<m>> \o FirstKeys(S \ {m}, n - 1)

(* The keys of bucket that start with prefix *)
KeysUnder(st, bucket, prefix) ==
    { a[2] : a \in { x \in DOMAIN st : x[1] = bucket /\ starts_with(x[2], prefix) } }

(* Backend, LIST objects v2: the first max_keys keys under the prefix that follow
   the continuation token, whether more remain, and the token to go on with
   (the last key returned) *)
ListObjectsV2(st, bucket, prefix, token, max_keys) ==
    LET matching == { k \in KeysUnder(st, bucket, prefix) :
                        token.some => KeyLess(token.v, k) }
        page == FirstKeys(matching, max_keys)
        truncated == Cardinality(matching) > max_keys
    IN [contents |-> page,
        is_truncated |-> Some(truncated),
        next_continuation_token |-> IF truncated THEN Some(page[Len(page)]) ELSE None]

(* Backend, COPY object: [ret, store]; fails when the source does not exist *)
CopyObject(st, dest_bucket, destination_key, bucket, source_key, fault) ==
    IF fault = "transport" THEN [ret |-> Err(Transport), store |-> st]
    ELSE IF ~Exists(st, bucket, source_key) THEN [ret |-> Err(NoSuchKey), store |-> st]
    ELSE [ret |-> Ok(<<>>),
          store |-> PutObject(st, dest_bucket, destination_key, st[<<bucket, source_key>>])]

(* S3DirectoryAddr::new *)
NewKeepsPrefix(bucket, prefix) == [bucket |-> bucket, prefix |-> prefix]
NewAlwaysAppends(bucket, prefix) == [bucket |-> bucket, prefix |-> prefix \o <<"/">>]
S3DirectoryAddr_new(bucket, prefix) ==
    LET actual_prefix == IF ends_with(prefix, "/") THEN prefix ELSE prefix \o <<"/">>
    IN [bucket |-> bucket, prefix |-> actual_prefix]

(* buffer_unordered(25) *)
COPY_CONCURRENCY == 25

(* Bounds of the directory scenarios *)
MaxPage == 2
WideKeys == 26

(* Inputs of the directory operations *)
RawPrefixes == { <<>>, <<"a">>, <<"a", "/", "b">>, <<"a", "/", "b", "/">>, <<"w">> }
Destinations ==
    { <<"b1", <<"a">>>>, <<"b1", <<"a", "/", "b">>>>, <<"b1", <<"c", "/">>>>,
      <<"b2", <<"c", "/">>>>, <<"b2", <<"a">>>> }

SeedObjects ==
    { <<<<"b1", <<"a", "/", "1">>>>, <<"x">>>>,
      <<<<"b1", <<"a", "/", "b", "/", "1">>>>, <<"y">>>>,
      <<<<"b1", <<"a", "/", "b", "c">>>>, <<"z">>>>,
      <<<<"b1", <<"/", "c">>>>, <<"x">>>>,
      <<<<"b2", <<"c", "/", "1">>>>, <<"z">>>> }

StoreOf(objs) == [a \in { o[1] : o \in objs } |-> (CHOOSE o \in objs : o[1] = a)[2]]

WideStore == StoreOf({ <<<<"b1", <<"w", "/">> \o Digits(i)>>, Digits(i % 3)>> : i \in 1..WideKeys })

callFrame == UNCHANGED <<flaky, fifo, quirky, env, creds, impl, written>>

(* A request issued now is late when a request of the operation has failed *)
Late == IF failed > 0 THEN late + 1 ELSE late

Begin(o, addr, dest, raw, raw_dest) ==
    /\ pc = "idle"
    /\ op' = o
    /\ self' = addr
    /\ destination' = dest
    /\ args' = [prefix |-> raw, dest_prefix |-> raw_dest]
    /\ prev' = [op |-> op, self |-> self, ok |-> (op = "none" \/ result.ret.ok),
                n |-> Cardinality(done)]
    /\ continuation_token' = None
    /\ objects' = <<>>
    /\ response' = NoResponse
    /\ awaiting' = <<>>
    /\ prefix_names' = <<>>
    /\ file_list' = <<>>
    /\ inflight' = <<>>
    /\ file_count' = 0
    /\ result' = NoResult
    /\ store0' = store
    /\ done' = {}
    /\ failed' = 0
    /\ late' = 0
    /\ calls' = calls + 1
    /\ UNCHANGED store
    /\ callFrame

(* The caller builds a directory address and calls list_all on it *)
CallListAll ==
    \E prefix \in RawPrefixes :
        /\ calls = 0
        /\ pc' = "list"
        /\ Begin("list_all", S3DirectoryAddr_new("b1", prefix), NoAddr, prefix, <<>>)

(* The caller builds a directory address and calls delete_all on it *)
CallDeleteAll ==
    \E prefix \in RawPrefixes :
        /\ calls = 0
        /\ pc' = "del_list"
        /\ Begin("delete_all", S3DirectoryAddr_new("b1", prefix), NoAddr, prefix, <<>>)

(* The caller builds two directory addresses and calls copy_into *)
CallCopyInto ==
    \E prefix \in RawPrefixes, dest \in Destinations :
        /\ calls = 0
        /\ pc' = "list"
        /\ Begin("copy_into", S3DirectoryAddr_new("b1", prefix),
                 S3DirectoryAddr_new(dest[1], dest[2]), prefix, dest[2])

(* After the operation has returned, the caller lists the same directory *)
CallListAgain ==
    /\ calls = 1
    /\ pc' = "list"
    /\ Begin("list_all", self, NoAddr, args.prefix, <<>>)

Return(ret) ==
    /\ pc' = "idle"
    /\ result' = [op |-> op, arg |-> 0, addr |-> <<>>, fault |-> "ok", ret |-> ret]

(* The paginator asks for another page while the response carries a token *)
PaginatorStopsAfterFirstPage(resp) == None
paginator_next(resp) == resp.next_continuation_token

(* What a quirky backend may do to a list response: answer as S3 does, leave out
   the continuation token, or leave out the truncation flag *)
Quirks == IF quirky THEN {"none", "no_token", "absent"} ELSE {"none"}
Quirked(resp, q) ==
    CASE q = "none" -> resp
      [] q = "no_token" -> [resp EXCEPT !.next_continuation_token = None]
      [] q = "absent" -> [resp EXCEPT !.is_truncated = None]

(* The list request of list_objects_v2().bucket(..).prefix(..) with the cursor *)
list_request(token) ==
    [kind |-> "list", bucket |-> self.bucket, prefix |-> self.prefix,
     continuation_token |-> token]

(* The delete request S3Addr::new(client, bucket, key).delete_file() sends *)
delete_request(key) == [kind |-> "delete", bucket |-> self.bucket, key |-> key]

(* `.await` on a request: the caller does nothing until the answer is there *)
NotAwaited(p) == p
awaited(p) ==
    CASE p = "list" -> "list_wait"
      [] p = "del_list" -> "del_list_wait"
      [] p = "del_objects" -> "del_wait"

(* list_all, `stream.next().await`: the paginator sends the request of the next page *)
ListSend ==
    /\ pc = "list"
    /\ awaiting' = Append(awaiting, list_request(continuation_token))
    /\ pc' = awaited("list")
    /\ late' = Late
    /\ UNCHANGED <<store, op, self, destination, continuation_token, objects, response,
                   prefix_names, file_list, inflight, file_count, result, store0, done,
                   calls, failed, args, prev>>
    /\ callFrame

(* list_all, one turn of `while let Some(result) = stream.next().await`: the answer
   to the page request; an error returns at once (`result?`), also out of copy_into
   (`self.list_all().await?`); the last page ends list_all, and in copy_into
   hands the keys to the stream (an empty stream is counted at once) *)
ListPage ==
    /\ pc = "list_wait"
    /\ awaiting # <<>>
    /\ \E fault \in Faults({"transport"}), max_keys \in 1..MaxPage, q \in Quirks :
        /\ awaiting' = Tail(awaiting)
        /\ IF fault = "transport"
           THEN /\ Return(Err(Transport))
                /\ failed' = failed + 1
                /\ UNCHANGED <<continuation_token, prefix_names, file_list, response>>
           ELSE LET req == Head(awaiting)
                    resp == Quirked(ListObjectsV2(store, req.bucket, req.prefix,
                                                  req.continuation_token, max_keys), q)
                    names == prefix_names \o resp.contents
                    next == paginator_next(resp)
                IN /\ prefix_names' = names
                   /\ continuation_token' = next
                   /\ response' = Some(resp)
                   /\ failed' = failed
                   /\ IF next.some
                      THEN pc' = "list" /\ UNCHANGED <<result, file_list>>
                      ELSE IF op = "list_all"
                      THEN Return(Ok(names)) /\ UNCHANGED file_list
                      ELSE IF names = <<>>
                      THEN Return(Ok(<<>>)) /\ UNCHANGED file_list
                      ELSE /\ pc' = "copy"
                           /\ file_list' = names
                           /\ UNCHANGED result
    /\ UNCHANGED <<store, op, self, destination, objects, inflight, file_count,
                   store0, done, calls, late, args, prev>>
    /\ callFrame

(* delete_all, `match response.is_truncated`: go on with the next token, or end *)
AfterPageAlwaysBreaks(resp) == [loop |-> FALSE, token |-> None]
AfterPageDropsToken(resp) == [loop |-> resp.is_truncated = Some(TRUE), token |-> None]
AfterPageNeverBreaks(resp) == [loop |-> TRUE, token |-> resp.next_continuation_token]
after_page(resp) ==
    IF resp.is_truncated = Some(TRUE)
    THEN [loop |-> TRUE, token |-> resp.next_continuation_token]
    ELSE [loop |-> FALSE, token |-> None]

EndOfPage(resp) ==
    LET m == after_page(resp) IN
    IF m.loop
    THEN /\ continuation_token' = m.token
         /\ pc' = "del_list"
         /\ UNCHANGED result
    ELSE /\ Return(Ok(<<>>))
         /\ UNCHANGED continuation_token

(* delete_all, `list_request.send()`: one list request with the current token *)
DeleteListSend ==
    /\ pc = "del_list"
    /\ awaiting' = Append(awaiting, list_request(continuation_token))
    /\ pc' = awaited("del_list")
    /\ late' = Late
    /\ UNCHANGED <<store, op, self, destination, continuation_token, objects, response,
                   prefix_names, file_list, inflight, file_count, result, store0, done,
                   calls, failed, args, prev>>
    /\ callFrame

(* delete_all, `.await?` on the list request: an error returns at once; an empty
   page goes straight to the match *)
DeleteListPage ==
    /\ pc = "del_list_wait"
    /\ awaiting # <<>>
    /\ \E fault \in Faults({"transport"}), max_keys \in 1..MaxPage, q \in Quirks :
        /\ awaiting' = Tail(awaiting)
        /\ IF fault = "transport"
           THEN /\ Return(Err(Transport))
                /\ failed' = failed + 1
                /\ UNCHANGED <<continuation_token, objects, response>>
           ELSE LET req == Head(awaiting)
                    resp == Quirked(ListObjectsV2(store, req.bucket, req.prefix,
                                                  req.continuation_token, max_keys), q)
                IN /\ failed' = failed
                   /\ response' = Some(resp)
                   /\ objects' = resp.contents
                   /\ IF resp.contents = <<>>
                      THEN EndOfPage(resp)
                      ELSE /\ pc' = "del_objects"
                           /\ UNCHANGED <<continuation_token, result>>
    /\ UNCHANGED <<store, op, self, destination, prefix_names, file_list, inflight,
                   file_count, store0, done, calls, late, args, prev>>
    /\ callFrame

(* delete_all's reaction to a failed delete_file: `.await?` returns the error *)
DeleteFailureIsSkipped(last) ==
    IF last THEN EndOfPage(response.v)
    ELSE pc' = "del_objects" /\ UNCHANGED <<result, continuation_token>>
on_delete_error(last) ==
    /\ Return(Err(Transport))
    /\ UNCHANGED continuation_token

(* delete_all, `S3Addr::new(..).delete_file()` for the next object of the page:
   the delete request is sent *)
DeleteSend ==
    /\ pc = "del_objects"
    /\ objects # <<>>
    /\ awaiting' = Append(awaiting, delete_request(Head(objects)))
    /\ pc' = awaited("del_objects")
    /\ late' = Late
    /\ UNCHANGED <<store, op, self, destination, continuation_token, objects, response,
                   prefix_names, file_list, inflight, file_count, result, store0, done,
                   calls, failed, args, prev>>
    /\ callFrame

(* delete_all, `.await?` on the delete request; after the last object of the
   page comes the match *)
DeleteNext ==
    /\ pc = "del_wait"
    /\ awaiting # <<>>
    /\ objects # <<>>
    /\ \E fault \in Faults({"transport"}) :
        LET req == Head(awaiting)
            r == delete_file(store, req.bucket, req.key, fault)
            last == Tail(objects) = <<>>
        IN /\ awaiting' = Tail(awaiting)
           /\ store' = r.store
           /\ objects' = Tail(objects)
           /\ IF r.ret.ok
              THEN /\ done' = done \cup {[key |-> req.key, ok |-> TRUE]}
                   /\ failed' = failed
                   /\ IF last
                      THEN EndOfPage(response.v)
                      ELSE pc' = "del_objects" /\ UNCHANGED <<result, continuation_token>>
              ELSE /\ done' = done
                   /\ failed' = failed + 1
                   /\ on_delete_error(last)
    /\ UNCHANGED <<op, self, destination, response, prefix_names, file_list, inflight,
                   file_count, store0, calls, late, args, prev>>
    /\ callFrame

(* copy_into's closure: the copy request built for one source key *)
CopyRequestKeepsPrefix(source_key) ==
    [bucket |-> destination.bucket, key |-> destination.prefix \o source_key,
     copy_source |-> <<self.bucket, source_key>>]
copy_request(source_key) ==
    LET src_prefix == self.prefix
        dest_prefix == destination.prefix
        relative_path == unwrap_or(strip_prefix(source_key, src_prefix), source_key)
        destination_key == dest_prefix \o relative_path
    IN [bucket |-> destination.bucket, key |-> destination_key,
        copy_source |-> <<self.bucket, source_key>>]

(* buffer_unordered(25): the next future is started while fewer than 25 run *)
BufferHasRoomOffByOne(running) == Len(running) <= COPY_CONCURRENCY
buffer_has_room(running) == Len(running) < COPY_CONCURRENCY

(* copy_into: the stream starts the copy of the next enumerated key *)
CopyIssue ==
    /\ pc = "copy"
    /\ file_list # <<>>
    /\ buffer_has_room(inflight)
    /\ inflight' = Append(inflight, copy_request(Head(file_list)))
    /\ file_list' = Tail(file_list)
    /\ late' = Late
    /\ UNCHANGED <<store, op, pc, self, destination, continuation_token, objects, response,
                   awaiting, prefix_names, file_count, result, store0, done, calls, failed,
                   args, prev>>
    /\ callFrame

RemoveAt(seq, i) == SubSeq(seq, 1, i - 1) \o SubSeq(seq, i + 1, Len(seq))

(* copy_into's reaction to the outcome of one copy: `let _copy_res = ...` drops it *)
CopyErrorPropagates(ret, finished) ==
    IF ~ret.ok THEN Return(Err(Transport))
    ELSE IF finished THEN Return(Ok(<<>>)) ELSE UNCHANGED <<pc, result>>
on_copy_result(ret, finished) ==
    IF finished THEN Return(Ok(<<>>)) ELSE UNCHANGED <<pc, result>>

(* `.count()`: every completed future counts, whatever it returned *)
CountOnlySuccesses(ret) == IF ret.ok THEN 1 ELSE 0
counted(ret) == 1

(* copy_into: one running copy completes (any of them, the oldest when the backend
   answers in order); count() counts it; when the stream is exhausted and nothing
   runs, copy_into returns Ok(()) *)
CopyComplete ==
    /\ pc = "copy"
    /\ \E i \in 1..Len(inflight), fault \in Faults({"transport"}) :
        /\ fifo => i = 1
        /\ LET req == inflight[i]
               r == CopyObject(store, req.bucket, req.key, req.copy_source[1],
                               req.copy_source[2], fault)
               rest == RemoveAt(inflight, i)
           IN /\ store' = r.store
              /\ inflight' = rest
              /\ file_count' = file_count + counted(r.ret)
              /\ done' = done \cup {[key |-> req.copy_source[2], ok |-> r.ret.ok]}
              /\ failed' = IF r.ret.ok THEN failed ELSE failed + 1
              /\ on_copy_result(r.ret, file_list = <<>> /\ rest = <<>>)
    /\ UNCHANGED <<op, self, destination, continuation_token, objects, response,
                   awaiting, prefix_names, file_list, store0, calls, late, args, prev>>
    /\ callFrame

(* Before the bulk operation the caller downloads one of the objects *)
DirDownload ==
    /\ pc = "idle"
    /\ calls = 0
    /\ \E o \in SeedObjects : DoDownloadBytes(0, o[1][1], o[1][2])

InitDir ==
    /\ \/ /\ store \in { StoreOf(objs) : objs \in SUBSET SeedObjects }
          /\ flaky \in BOOLEAN
          /\ fifo = FALSE
       \/ /\ store = WideStore
          /\ flaky = FALSE
          /\ fifo = TRUE
    /\ impl = DefaultImpl
    /\ NoCredentialUse
    /\ InitCommon

NextDir ==
    \/ DirDownload
    \/ CallListAll \/ CallDeleteAll \/ CallCopyInto \/ CallListAgain
    \/ ListSend \/ ListPage
    \/ DeleteListSend \/ DeleteListPage \/ DeleteSend \/ DeleteNext
    \/ CopyIssue \/ CopyComplete

SpecDir == InitDir /\ [][NextDir]_vars

(* The same operations against a backend whose list responses may lack the
   continuation token or the truncation flag *)
InitQuirk ==
    /\ store \in { StoreOf(objs) : objs \in SUBSET SeedObjects }
    /\ flaky \in BOOLEAN
    /\ fifo = FALSE
    /\ quirky = TRUE
    /\ env = <<>> /\ creds = <<>>
    /\ impl = DefaultImpl
    /\ InitCommon

SpecQuirk == InitQuirk /\ [][NextDir]_vars

(* The steps of a running operation.  The runtime polls the operation's future
   until it is ready, and the backend answers every request, with a response
   or an error: a step that stays possible is taken *)
DirSteps ==
    \/ ListSend \/ ListPage
    \/ DeleteListSend \/ DeleteListPage \/ DeleteSend \/ DeleteNext
    \/ CopyIssue \/ CopyComplete

(* The small directories only: the wide one adds nothing to what progress needs *)
InitDirSmall == InitDir /\ ~fifo

SpecDirFair == InitDirSmall /\ [][NextDir]_vars /\ WF_vars(DirSteps)

-----------------------------------------------------------------------------
(* Credentials (s3_generic/mod.rs) *)

(* struct S3Credentials *)
S3Credentials(cloud_region, endpoint, access_key, secret_key) ==
    [cloud_region |-> cloud_region, endpoint |-> endpoint,
     access_key |-> access_key, secret_key |-> secret_key]

(* impl PartialEq for S3Credentials *)
eq(a, b) == a.cloud_region = b.cloud_region /\ a.endpoint = b.endpoint

(* matches_endpoint_and_region *)
matches_endpoint_and_region(a, b) == eq(a, b)

(* `{:?}` of a string: quoted, with quote and backslash escaped *)
RECURSIVE EscapeDebug(_)
EscapeDebug(s) ==
    IF s = <<>> THEN <<>>
    ELSE (IF Head(s) = "\"" \/ Head(s) = "\\" THEN <<"\\", Head(s)>> ELSE <<Head(s)>>)
         \o EscapeDebug(Tail(s))
DebugStr(s) == <<"\"">> \o EscapeDebug(s) \o <<"\"">>

(* The mask written in place of both keys *)
Masked == <<"*", "*", "*">>

(* Formatter::debug_struct(name).field(..)...finish() *)
TypeName ==
    <<"S", "3", "C", "r", "e", "d", "e", "n", "t", "i", "a", "l", "s">>
FieldCloudRegion ==
    <<"c", "l", "o", "u", "d", "_", "r", "e", "g", "i", "o", "n">>
FieldEndpoint ==
    <<"e", "n", "d", "p", "o", "i", "n", "t">>
FieldAccessKey ==
    <<"a", "c", "c", "e", "s", "s", "_", "k", "e", "y">>
FieldSecretKey ==
    <<"s", "e", "c", "r", "e", "t", "_", "k", "e", "y">>
debug_struct(name, fields) ==
    LET RECURSIVE Body(_)
        Body(i) ==
            IF i > Len(fields) THEN <<>>
            ELSE (IF i > 1 THEN <<",", " ">> ELSE <<>>)
                 \o fields[i][1] \o <<":", " ">> \o fields[i][2] \o Body(i + 1)
    IN IF fields = <<>> THEN name
       ELSE name \o <<" ", "{", " ">> \o Body(1) \o <<" ", "}">>

(* impl Debug for S3Credentials *)
FmtDerived(c) ==
    debug_struct(TypeName,
                 << <<FieldCloudRegion, DebugStr(c.cloud_region)>>,
                    <<FieldEndpoint, DebugStr(c.endpoint)>>,
                    <<FieldAccessKey, DebugStr(c.access_key)>>,
                    <<FieldSecretKey, DebugStr(c.secret_key)>> >>)
fmt(c) ==
    debug_struct(TypeName,
                 << <<FieldCloudRegion, DebugStr(c.cloud_region)>>,
                    <<FieldEndpoint, DebugStr(c.endpoint)>>,
                    <<FieldAccessKey, DebugStr(Masked)>>,
                    <<FieldSecretKey, DebugStr(Masked)>> >>)

(* trait S3EnvNames: the defaults *)
DEFAULT_S3_REGION ==
    <<"s", "f", "0", "3">>
DEFAULT_S3_ENDPOINT ==
    <<"h", "t", "t", "p", "s", ":", "/", "/", "s", "f", "o", "3", ".", "d", "i", "g",
      "i", "t", "a", "l", "o", "c", "e", "a", "n", "s", "p", "a", "c", "e", "s",
      ".", "c", "o", "m">>

(* Two implementations of S3EnvNames and the variable names they give *)
EnvTypes == {"A", "B"}
EnvNames ==
    [A |-> [REGION_ENV |-> "A_REGION", ENDPOINT_ENV |-> "A_ENDPOINT",
            ACCESS_ENV |-> "A_ACCESS", SECRET_ENV |-> "A_SECRET"],
     B |-> [REGION_ENV |-> "B_REGION", ENDPOINT_ENV |-> "B_ENDPOINT",
            ACCESS_ENV |-> "B_ACCESS", SECRET_ENV |-> "B_SECRET"]]
EnvVars == UNION { { EnvNames[t].REGION_ENV, EnvNames[t].ENDPOINT_ENV,
                     EnvNames[t].ACCESS_ENV, EnvNames[t].SECRET_ENV } : t \in EnvTypes }

(* Values the environment may give each variable *)
EnvValues(name) ==
    IF \E t \in EnvTypes : name = EnvNames[t].REGION_ENV
    THEN {None, Some(<<"n", "y", "c", "3">>)}
    ELSE IF \E t \in EnvTypes : name = EnvNames[t].ENDPOINT_ENV
    THEN {None, Some(<<"h", "t", "t", "p", ":", "/", "/", "m", "\"">>)}
    ELSE IF \E t \in EnvTypes : name = EnvNames[t].ACCESS_ENV
    THEN {None, Some(<<"A", "K", "1">>), Some(<<"A", "K", "2">>)}
    ELSE {None, Some(<<"s", "1">>), Some(<<"s", "2">>)}

(* std::env::var *)
NotPresent == [kind |-> "NotPresent"]
env_var(name) == IF env[name].some THEN Ok(env[name].v) ELSE Err(NotPresent)

(* Result::unwrap_or_else with a default *)
unwrap_or_else(r, d) == IF r.ok THEN r.v ELSE d

(* What init_from_env_vars gives: the credential set, or a panic *)
Panicked == [kind |-> "panic"]

(* S3Credentials::init_from_env_vars::<T>() *)
InitKeysDefaultEmpty(t) ==
    LET n == EnvNames[t]
    IN Ok(S3Credentials(unwrap_or_else(env_var(n.REGION_ENV), DEFAULT_S3_REGION),
                        unwrap_or_else(env_var(n.ENDPOINT_ENV), DEFAULT_S3_ENDPOINT),
                        unwrap_or_else(env_var(n.ACCESS_ENV), <<>>),
                        unwrap_or_else(env_var(n.SECRET_ENV), <<>>)))
init_from_env_vars(t) ==
    LET n == EnvNames[t]
        region == unwrap_or_else(env_var(n.REGION_ENV), DEFAULT_S3_REGION)
        endpoint == unwrap_or_else(env_var(n.ENDPOINT_ENV), DEFAULT_S3_ENDPOINT)
        access_key == env_var(n.ACCESS_ENV)
        secret_key == env_var(n.SECRET_ENV)
    IN IF ~access_key.ok THEN Err(Panicked)
       ELSE IF ~secret_key.ok THEN Err(Panicked)
       ELSE Ok(S3Credentials(region, endpoint, access_key.v, secret_key.v))

(* A LazyLock<S3Credentials> static: not forced yet, poisoned by a panicking
   initializer, or holding its credential set *)
Uninit == [state |-> "uninit"]
Poisoned == [state |-> "poisoned"]
Ready(c) == [state |-> "ready", v |-> c]

credFrame == UNCHANGED <<store, flaky, fifo, quirky, env, impl, op, pc, self, destination,
                         dirLocals, written, store0, done, calls, failed, late, args, prev>>

(* make_s3_lazylock::<T>(), first dereference: the initializer runs once *)
Force ==
    \E t \in EnvTypes :
        /\ creds[t] = Uninit
        /\ LET r == init_from_env_vars(t)
           IN /\ creds' = [creds EXCEPT ![t] = IF r.ok THEN Ready(r.v) ELSE Poisoned]
              /\ result' = [op |-> "init_from_env_vars", arg |-> 0, addr |-> <<t>>,
                            fault |-> "ok", ret |-> r]
        /\ credFrame

(* a == b on two credential sets *)
Compare ==
    \E t \in EnvTypes, u \in EnvTypes :
        /\ creds[t].state = "ready" /\ creds[u].state = "ready"
        /\ result' = [op |-> "eq", arg |-> 0, addr |-> <<t, u>>, fault |-> "ok",
                      ret |-> Ok(eq(creds[t].v, creds[u].v))]
        /\ UNCHANGED creds
        /\ credFrame

(* format!("{:?}", credentials) *)
Format ==
    \E t \in EnvTypes :
        /\ creds[t].state = "ready"
        /\ result' = [op |-> "fmt", arg |-> 0, addr |-> <<t>>, fault |-> "ok",
                      ret |-> Ok(fmt(creds[t].v))]
        /\ UNCHANGED creds
        /\ credFrame

InitCred ==
    /\ store = EmptyStore /\ flaky = FALSE /\ fifo = FALSE /\ quirky = FALSE
    /\ impl = DefaultImpl
    /\ env \in [A_REGION : EnvValues("A_REGION"), A_ENDPOINT : EnvValues("A_ENDPOINT"),
                 A_ACCESS : EnvValues("A_ACCESS"), A_SECRET : EnvValues("A_SECRET"),
                 B_REGION : EnvValues("B_REGION"), B_ENDPOINT : EnvValues("B_ENDPOINT"),
                 B_ACCESS : EnvValues("B_ACCESS"), B_SECRET : EnvValues("B_SECRET")]
    /\ creds = [t \in EnvTypes |-> Uninit]
    /\ InitCommon
NextCred == Force \/ Compare \/ Format
SpecCred == InitCred /\ [][NextCred]_vars

-----------------------------------------------------------------------------
(* C1: a download_json that reaches the backend, on an address whose last
   successful write was upload_json(v) with no write or delete since, returns
   Ok(v), whatever the address held before that upload; and the object stored
   there is the pretty-printed text of v. *)
C1_RoundTrip ==
    /\ \A a \in DOMAIN written :
          a \in DOMAIN store /\ store[a] = to_string_pretty(written[a])
    /\ (result.op = "download_json" /\ result.fault = "ok"
        /\ result.addr \in DOMAIN written)
       => result.ret = Ok(written[result.addr])

C1_Witness ==
    /\ result.op = "download_json"
    /\ result.addr \in DOMAIN written
    /\ result.ret = Ok(JObj(<<Field(<<"a">>, JArr(<<JBool(FALSE)>>)),
                              Field(<<"b">>, JObj(<<>>))>>))

(* C2: a download of an address that holds no object (never uploaded, or
   uploaded and deleted since) returns an error and no bytes; that error is
   NoSuchKey when the backend was reached and the transport error when it was
   not, and the two are different values. *)
C2_NotFoundDistinct ==
    (result.op \in {"download_bytes", "download_json"})
    => /\ (result.fault = "transport" => result.ret = Err(Transport))
       /\ (result.addr \notin DOMAIN store /\ result.fault # "transport")
          => result.ret = Err(NoSuchKey)
       /\ (result.addr \notin DOMAIN store => ~result.ret.ok)
       /\ (~result.ret.ok /\ result.addr \notin DOMAIN store)
          => (result.ret.err.kind = "NoSuchKey") # (result.ret.err.kind = "Transport")

C2_Witness ==
    /\ result.op = "download_json"
    /\ result.addr \in done
    /\ result.ret = Err(NoSuchKey)

-----------------------------------------------------------------------------
(* The keys under the source prefix when the operation started, and the key the
   claim says each is copied to *)
Sources == KeysUnder(store0, self.bucket, self.prefix)
TargetOf(k) == destination.prefix \o SubSeq(k, Len(self.prefix) + 1, Len(k))
Elems(seq) == { seq[i] : i \in 1..Len(seq) }

(* C3: the prefix a directory address holds ends with "/": it is the caller's
   prefix when that ends with "/", and the caller's prefix followed by "/"
   otherwise (the empty prefix gives "/"); building an address from a stored
   prefix changes nothing; "a/b" and "a/b/" both give "a/b/"; and this holds in
   every state of every operation run on the address. *)
C3_PrefixNormalized ==
    (op # "none")
    => /\ ends_with(self.prefix, "/")
       /\ self.prefix = (IF args.prefix # <<>> /\ args.prefix[Len(args.prefix)] = "/"
                         THEN args.prefix ELSE args.prefix \o <<"/">>)
       /\ S3DirectoryAddr_new(self.bucket, self.prefix) = self
       /\ (args.prefix \in {<<"a", "/", "b">>, <<"a", "/", "b", "/">>}
           => self.prefix = <<"a", "/", "b", "/">>)
       /\ (args.prefix = <<>> => self.prefix = <<"/">>)
       /\ (op = "copy_into"
           => /\ ends_with(destination.prefix, "/")
              /\ destination.prefix =
                    (IF args.dest_prefix[Len(args.dest_prefix)] = "/"
                     THEN args.dest_prefix ELSE args.dest_prefix \o <<"/">>)
              /\ S3DirectoryAddr_new(destination.bucket, destination.prefix) = destination)

C3_Witness ==
    /\ calls = 2
    /\ pc = "idle"
    /\ prev.op = "delete_all"
    /\ args.prefix = <<"a", "/", "b">>
    /\ self.prefix = <<"a", "/", "b", "/">>

(* C4: with the store unchanged during the call, a list_all that returns Ok
   returns each key of the bucket that starts with the normalized prefix exactly
   once and nothing else, whatever page sizes the backend used, and that is the
   content of a single-page response. *)
C4_ListAllExact ==
    (result.op = "list_all" /\ result.ret.ok)
    => /\ Elems(result.ret.v) = KeysUnder(store0, self.bucket, self.prefix)
       /\ Len(result.ret.v) = Cardinality(KeysUnder(store0, self.bucket, self.prefix))
       /\ Elems(result.ret.v) =
             Elems(ListObjectsV2(store0, self.bucket, self.prefix, None,
                                 Cardinality(DOMAIN store0) + 1).contents)
       /\ store = store0

C4_Witness ==
    /\ result.op = "list_all"
    /\ result.ret.ok
    /\ args.prefix = <<"a">>
    /\ Elems(result.ret.v) = { <<"a", "/", "1">>, <<"a", "/", "b", "/", "1">>,
                               <<"a", "/", "b", "c">> }
    /\ <<"b1", <<"/", "c">>>> \in DOMAIN store0

(* C5: when delete_all has returned Ok, no key of the bucket starts with the
   prefix, and a list_all that then runs on the same address and returns Ok
   returns the empty sequence. *)
C5_DeleteAllThenEmpty ==
    /\ (result.op = "delete_all" /\ result.ret.ok)
       => KeysUnder(store, self.bucket, self.prefix) = {}
    /\ (result.op = "list_all" /\ result.ret.ok /\ prev.op = "delete_all" /\ prev.ok)
       => result.ret.v = <<>>

C5_Witness ==
    /\ result.op = "list_all"
    /\ result.ret.ok
    /\ prev.op = "delete_all"
    /\ prev.ok
    /\ prev.self = self
    /\ prev.n > MaxPage

(* C6 as stated: after a copy_into in which no copy request failed, every key
   that was under the source prefix has its destination key, holding the content
   the source object had when the operation started. *)
C6_Original ==
    (result.op = "copy_into" /\ result.ret.ok /\ failed = 0)
    => \A k \in Sources :
          /\ <<destination.bucket, TargetOf(k)>> \in DOMAIN store
          /\ store[<<destination.bucket, TargetOf(k)>>] = store0[<<self.bucket, k>>]

(* C6 as amended: after a copy_into in which no copy request failed, every key
   that was under the source prefix has its destination key, holding the content
   the source object had when the operation started or, where the operation
   itself overwrote that source object, the content it holds at the return. *)
C6_CopyPostcondition ==
    (result.op = "copy_into" /\ result.ret.ok /\ failed = 0)
    => \A k \in Sources :
          /\ <<destination.bucket, TargetOf(k)>> \in DOMAIN store
          /\ store[<<destination.bucket, TargetOf(k)>>]
                \in {store0[<<self.bucket, k>>], store[<<self.bucket, k>>]}

C6_Witness ==
    /\ result.op = "copy_into"
    /\ result.ret.ok
    /\ failed = 0
    /\ Cardinality(Sources) >= 2
    /\ \E k \in Sources :
          store[<<destination.bucket, TargetOf(k)>>] # store0[<<self.bucket, k>>]

(* C7: at most 25 copy requests are issued and not completed at any time, and
   none is when copy_into has returned. *)
C7_BoundedInFlight ==
    /\ Len(inflight) <= 25
    /\ (pc # "copy" => inflight = <<>>)
    /\ (result.op = "copy_into" => inflight = <<>> /\ file_list = <<>>)

C7_Witness ==
    /\ pc = "copy"
    /\ Len(inflight) = 25
    /\ file_list # <<>>

(* C8: copy_into returns an error only when the enumeration failed, and then no
   copy request was issued; once the enumeration has succeeded it returns Ok
   after one request per enumerated key has been issued and has completed,
   however many of them failed. *)
C8_CopySwallowsFailures ==
    (op = "copy_into")
    => /\ (result.op = "copy_into" /\ ~result.ret.ok)
          => /\ result.ret = Err(Transport)
             /\ done = {} /\ inflight = <<>> /\ file_list = <<>> /\ file_count = 0
             /\ store = store0
             /\ failed = 1 /\ late = 0
       /\ (pc = "copy" => result.op = "none")
       /\ (result.op = "copy_into" /\ (done # {} \/ failed = 0))
          => /\ result.ret.ok
             /\ file_count = Len(prefix_names)
             /\ { d.key : d \in done } = Elems(prefix_names)

C8_Witness ==
    /\ result.op = "copy_into"
    /\ result.ret.ok
    /\ failed >= 1
    /\ late >= 1
    /\ \E d \in done : d.ok
    /\ \E d \in done : ~d.ok

(* C9: when a list request or a delete fails in delete_all, delete_all has
   returned that error, it was its only failure and no request followed it, and
   the store is the store of the start without the keys deleted before the
   failure: those stay deleted, every other object is in place unchanged. *)
C9_DeleteAllAborts ==
    (op = "delete_all" /\ failed > 0)
    => /\ pc = "idle"
       /\ result.op = "delete_all"
       /\ result.ret = Err(Transport)
       /\ failed = 1
       /\ late = 0
       /\ DOMAIN store = (DOMAIN store0) \ { <<self.bucket, d.key>> : d \in done }
       /\ \A a \in DOMAIN store : store[a] = store0[a]

C9_Witness ==
    /\ op = "delete_all"
    /\ failed = 1
    /\ done # {}
    /\ KeysUnder(store, self.bucket, self.prefix) # {}
    /\ objects # <<>>

(* C10: every canonical operation on a domain address addr sends its request to
   bucket generate_bucket(addr) and key generate_object_key(addr) + ".json", the
   coordinates the URI carries too; so the object upload_object wrote is the one
   download_openscrapers_object returns and delete_openscrapers_s3_object
   removes. *)
Canon(addr) == <<impl.bucket[addr], impl.key[addr] \o <<".", "j", "s", "o", "n">>>>

C10_CanonicalAgreement ==
    /\ (result.op \in {"download_json", "upload_json", "delete_file"})
       => result.addr = Canon(result.arg)
    /\ (result.op = "get_s3_json_uri")
       => /\ result.ret.v.bucket = Canon(result.arg)[1]
          /\ result.ret.v.key = Canon(result.arg)[2]
    /\ (result.op = "upload_json" /\ result.ret.ok)
       => /\ Canon(result.arg) \in DOMAIN store
          /\ store[Canon(result.arg)] = to_string_pretty(written[Canon(result.arg)])
    /\ (result.op = "download_json" /\ result.fault = "ok"
        /\ Canon(result.arg) \in DOMAIN written)
       => result.ret = Ok(written[Canon(result.arg)])
    /\ (result.op = "delete_file" /\ result.ret.ok)
       => Canon(result.arg) \notin DOMAIN store

C10_Witness ==
    /\ result.op = "download_json"
    /\ result.arg = 2
    /\ impl.key[1] # impl.key[2]
    /\ Canon(1) \in DOMAIN store
    /\ result.ret = Ok(JArr(<<JNum(7)>>))

(* C11: copy_into copies within one bucket: every copy request it issues reads
   from and writes to the bucket of the source directory address, whatever
   destination address it was given. *)
C11_SameBucket ==
    (op = "copy_into")
    => \A i \in 1..Len(inflight) :
           /\ inflight[i].copy_source[1] = self.bucket
           /\ inflight[i].bucket = self.bucket

(* C12: two credential sets with the same region and endpoint compare equal and
   print the same Debug text whatever their access key and secret key are, and
   two credential sets compare unequal exactly when region or endpoint differ. *)
C12_KeysNeitherCompareNorShow ==
    /\ (result.op = "eq")
       => LET a == creds[result.addr[1]].v
              b == creds[result.addr[2]].v
          IN result.ret.v = (a.cloud_region = b.cloud_region /\ a.endpoint = b.endpoint)
    /\ (result.op = "fmt")
       => \A u \in EnvTypes :
              LET a == creds[result.addr[1]].v
              IN (/\ creds[u].state = "ready"
                  /\ creds[u].v.cloud_region = a.cloud_region
                  /\ creds[u].v.endpoint = a.endpoint)
                 => fmt(creds[u].v) = result.ret.v

C12_Witness ==
    /\ result.op = "fmt"
    /\ result.addr = <<"A">>
    /\ creds["B"].state = "ready"
    /\ creds["B"].v.cloud_region = creds["A"].v.cloud_region
    /\ creds["B"].v.endpoint = creds["A"].v.endpoint
    /\ creds["B"].v.access_key # creds["A"].v.access_key
    /\ creds["B"].v.secret_key # creds["A"].v.secret_key
    /\ fmt(creds["B"].v) = result.ret.v
    /\ eq(creds["A"].v, creds["B"].v)

(* C13: initialisation from the environment: an unset region or endpoint
   variable gives the default region or endpoint and initialisation succeeds;
   an unset access-key or secret-key variable makes initialisation fail fatally
   and no credential set exists; when all four are set the credential set holds
   exactly those four values. *)
C13_InitFromEnv ==
    \A t \in EnvTypes :
        LET n == EnvNames[t]
            region == env[n.REGION_ENV]
            endpoint == env[n.ENDPOINT_ENV]
            access_key == env[n.ACCESS_ENV]
            secret_key == env[n.SECRET_ENV]
        IN /\ (creds[t].state = "ready")
              => /\ access_key.some /\ secret_key.some
                 /\ creds[t].v.access_key = access_key.v
                 /\ creds[t].v.secret_key = secret_key.v
                 /\ creds[t].v.cloud_region =
                        (IF region.some THEN region.v ELSE <<"s", "f", "0", "3">>)
                 /\ creds[t].v.endpoint =
                        (IF endpoint.some THEN endpoint.v ELSE DEFAULT_S3_ENDPOINT)
           /\ (creds[t].state = "poisoned")
              => ~(access_key.some /\ secret_key.some)
           /\ (result.op = "init_from_env_vars" /\ result.addr = <<t>>)
              => (result.ret.ok <=> creds[t].state = "ready")

C13_Witness ==
    /\ creds["A"].state = "poisoned"
    /\ env["A_ACCESS"].some /\ ~env["A_SECRET"].some
    /\ creds["B"].state = "ready"
    /\ ~env["B_REGION"].some /\ env["B_ENDPOINT"].some
    /\ creds["B"].v.cloud_region = <<"s", "f", "0", "3">>
    /\ creds["B"].v.endpoint = env["B_ENDPOINT"].v

(* C14: delete_all lists the full key set, then deletes each key individually
   and sequentially: no delete request is issued before the enumeration of the
   prefix has completed (all list pages fetched), and the deletes are issued
   one at a time.  As stated: a list request never follows a delete. *)
C14_Original ==
    (op = "delete_all")
    => /\ Len(awaiting) <= 1
       /\ \A i \in 1..Len(awaiting) : awaiting[i].kind = "list" => done = {}

(* C14, amended: delete_all works page by page.  A delete request is sent only
   for the first not yet deleted key of the page whose list response has
   arrived, one request at a time; the next page is requested only when every
   key of the current page has been deleted. *)
C14_PageByPage ==
    (op = "delete_all")
    => /\ Len(awaiting) <= 1
       /\ \A i \in 1..Len(awaiting) :
           /\ (awaiting[i].kind = "delete")
              => /\ response.some
                 /\ objects # <<>>
                 /\ awaiting[i].key = Head(objects)
                 /\ awaiting[i].key \in Elems(response.v.contents)
                 /\ awaiting[i].key \notin { d.key : d \in done }
           /\ (awaiting[i].kind = "list")
              => /\ objects = <<>>
                 /\ response.some
                    => Elems(response.v.contents) \subseteq { d.key : d \in done }

C14_Witness ==
    /\ op = "delete_all"
    /\ Len(awaiting) = 1
    /\ awaiting[1].kind = "list"
    /\ awaiting[1].continuation_token.some
    /\ response.some
    /\ response.v.contents # <<>>
    /\ done # {}

(* C15: pagination is a state machine Start (no cursor) / HasCursor(token) /
   Done.  Enumeration starts without cursor; after each page response it moves
   to HasCursor(next_token) when the response is truncated and to Done
   otherwise (in delete_all once the keys of the page are deleted); after Done
   no page request is issued; and with a finite key set and no failing request
   the loop eventually reaches Done, in list_all and in delete_all. *)
Enumerating == pc \in {"list", "list_wait", "del_list", "del_list_wait", "del_objects", "del_wait"}

PaginationStep ==
    /\ (calls' # calls) => continuation_token' = None /\ awaiting' = <<>>
    /\ (pc = "list_wait" /\ failed' = failed)
       => /\ response'.some
          /\ IF response'.v.is_truncated = Some(TRUE)
             THEN /\ pc' = "list"
                  /\ continuation_token' = response'.v.next_continuation_token
                  /\ continuation_token'.some
             ELSE ~Enumerating'
    /\ (pc \in {"del_list_wait", "del_wait"} /\ failed' = failed /\ objects' = <<>>)
       => /\ response'.some
          /\ IF response'.v.is_truncated = Some(TRUE)
             THEN /\ pc' = "del_list"
                  /\ continuation_token' = response'.v.next_continuation_token
                  /\ continuation_token'.some
             ELSE pc' = "idle" /\ result'.ret.ok
    /\ (~Enumerating /\ calls' = calls)
       => ~Enumerating' /\ awaiting' = <<>>

C15_Pagination ==
    /\ [][PaginationStep]_vars
    /\ (op \in {"list_all", "delete_all"} /\ Enumerating)
       ~> (pc = "idle" /\ (failed = 0 => result.ret.ok))

C15_Witness ==
    /\ op = "delete_all"
    /\ pc = "idle"
    /\ result.ret.ok
    /\ Cardinality(done) >= 3
    /\ response.some
    /\ response.v.is_truncated = Some(FALSE)
    /\ prev.op = "none"

(* C16: while list_all and delete_all run, at most one backend request (list
   page or delete) is in flight at any time; within copy_into no copy request
   is issued before the enumeration has finished; more than one request is in
   flight only during the copy phase of copy_into. *)
InFlight == Len(awaiting) + Len(inflight)

C16_OneInFlightOutsideCopy ==
    /\ (op \in {"list_all", "delete_all"}) => InFlight <= 1
    /\ (InFlight > 1) => op = "copy_into" /\ pc = "copy"
    /\ (op = "copy_into" /\ (inflight # <<>> \/ done # {}))
       => /\ awaiting = <<>>
          /\ ~continuation_token.some
          /\ response.some
          /\ ~response.v.next_continuation_token.some
          /\ Elems(prefix_names) = Sources
          /\ Len(file_list) + Len(inflight) + Cardinality(done) = Len(prefix_names)

C16_Witness ==
    /\ op = "copy_into"
    /\ pc = "copy"
    /\ InFlight = 3
    /\ Len(prefix_names) = 3
    /\ ~fifo

(* C17: copy_into attempts exactly one copy per enumerated key: the copy
   requests are those of the keys the single enumeration at the start returned,
   one per key; the completed count equals the number of enumerated keys
   whether or not copies failed; objects the copies create are never
   enumerated, so copy_into ends after exactly N requests for N enumerated
   keys, also when the destination prefix equals or lies under the source
   prefix. *)
CopyPending == Elems(file_list)
CopyRunning == { inflight[i].copy_source[2] : i \in 1..Len(inflight) }
CopyFinished == { d.key : d \in done }

OneCopyPerKey ==
    /\ (op = "copy_into" /\ pc = "copy")
       => /\ awaiting = <<>>
          /\ Elems(prefix_names) = Sources
          /\ Len(prefix_names) = Cardinality(Sources)
          /\ CopyPending \cup CopyRunning \cup CopyFinished = Sources
          /\ Len(file_list) + Len(inflight) + Cardinality(CopyFinished)
                 = Cardinality(Sources)
          /\ file_count = Cardinality(CopyFinished)
          /\ \A i \in 1..Len(inflight) : inflight[i] = copy_request(inflight[i].copy_source[2])
    /\ (op = "copy_into" /\ pc = "idle" /\ result.ret.ok)
       => /\ file_list = <<>> /\ inflight = <<>> /\ awaiting = <<>>
          /\ CopyFinished = Sources
          /\ Cardinality(done) = Cardinality(Sources)
          /\ file_count = Cardinality(Sources)

C17_ExactlyOneCopyPerKey ==
    /\ []OneCopyPerKey
    /\ (op = "copy_into" /\ pc = "copy") ~> (pc = "idle" /\ result.ret.ok)

C17_Witness ==
    /\ op = "copy_into" /\ pc = "idle" /\ result.ret.ok
    /\ self = [bucket |-> "b1", prefix |-> <<"a", "/">>]
    /\ destination = [bucket |-> "b1", prefix |-> <<"a", "/", "b", "/">>]
    /\ file_count = 3
    /\ failed = 1
    /\ <<"b1", <<"a", "/", "b", "/", "b", "/", "1">>>> \in DOMAIN store
    /\ Cardinality(KeysUnder(store, "b1", <<"a", "/">>)) > 3

(* C18: copy_into is independent of the interleaving: for every source and
   destination address (a destination prefix equal to or nested under the
   source prefix included) and no failing copy, the store holds the same
   content after copy_into whatever the order in which the concurrent copies
   are scheduled and complete.  Stated against one fixed order: the final
   store is the one the copies give when they complete in enumeration order. *)
RECURSIVE CopiedInOrder(_, _)
CopiedInOrder(st, keys) ==
    IF keys = <<>> THEN st
    ELSE LET req == copy_request(Head(keys))
         IN CopiedInOrder(CopyObject(st, req.bucket, req.key, req.copy_source[1],
                                     req.copy_source[2], "ok").store,
                          Tail(keys))

C18_SameStoreForEveryOrder ==
    (op = "copy_into" /\ pc = "idle" /\ result.ret.ok /\ failed = 0)
    => store = CopiedInOrder(store0, prefix_names)

(* C19: frame conditions.  delete_all removes only keys of its own bucket that
   start with its normalized prefix and leaves every other object unchanged
   (delete_all on "a/b/" never touches "a/bc"); list_all and download never
   change the store; copy_into never deletes an object and writes only to
   keys destPrefix + rel in the destination bucket. *)
NormalizedPrefix(p) == IF p # <<>> /\ p[Len(p)] = "/" THEN p ELSE p \o <<"/">>

Untouched(a) == a \in DOMAIN store' /\ store'[a] = store[a]

FrameStep ==
    /\ (op' = "list_all" \/ result'.op \in {"download_bytes", "download_json"})
       => store' = store
    /\ (op' = "delete_all")
       => /\ DOMAIN store' \subseteq DOMAIN store
          /\ \A a \in DOMAIN store :
                \/ Untouched(a)
                \/ /\ a[1] = "b1"
                   /\ starts_with(a[2], NormalizedPrefix(args'.prefix))
                   /\ a \notin DOMAIN store'
    /\ (op' = "copy_into")
       => /\ \A a \in DOMAIN store : a \in DOMAIN store'
          /\ \A a \in DOMAIN store' :
                \/ a \in DOMAIN store /\ store'[a] = store[a]
                \/ /\ a[1] = destination'.bucket
                   /\ \E k \in KeysUnder(store0', "b1", NormalizedPrefix(args'.prefix)) :
                        a[2] = NormalizedPrefix(args'.dest_prefix)
                               \o SubSeq(k, Len(NormalizedPrefix(args'.prefix)) + 1, Len(k))

C19_Frame == [][FrameStep]_vars

C19_Witness ==
    /\ op = "delete_all" /\ pc = "idle" /\ result.ret.ok
    /\ args.prefix = <<"a", "/", "b">>
    /\ done = {[key |-> <<"a", "/", "b", "/", "1">>, ok |-> TRUE]}
    /\ <<"b1", <<"a", "/", "b", "c">>>> \in DOMAIN store
    /\ <<"b1", <<"a", "/", "1">>>> \in DOMAIN store

(* C20: the cursor of delete_all.  The first list request carries no
   continuation token; every later list request carries exactly the
   next_continuation_token of the response before it, and none when that
   response was truncated without a token (the listing then restarts from the
   first page); the loop ends at the first response whose is_truncated is
   false or absent, once the keys of that page are deleted. *)
C20_DeleteAllCursor ==
    (op = "delete_all")
    => /\ \A i \in 1..Len(awaiting) :
            (awaiting[i].kind = "list")
            => IF response.some
               THEN /\ response.v.is_truncated = Some(TRUE)
                    /\ awaiting[i].continuation_token = response.v.next_continuation_token
                    /\ Elems(response.v.contents) \subseteq { d.key : d \in done }
               ELSE awaiting[i].continuation_token = None
       /\ (response.some /\ response.v.is_truncated # Some(TRUE))
          => pc \in {"del_objects", "del_wait", "idle"}
       /\ (pc = "idle" /\ result.ret.ok)
          => /\ response.some
             /\ response.v.is_truncated \in {Some(FALSE), None}
             /\ Elems(response.v.contents) \subseteq { d.key : d \in done }
             /\ objects = <<>>
       /\ (pc = "del_list" /\ response.some)
          => /\ response.v.is_truncated = Some(TRUE)
             /\ continuation_token = response.v.next_continuation_token

C20_Witness ==
    /\ op = "delete_all"
    /\ Len(awaiting) = 1
    /\ awaiting[1].kind = "list"
    /\ awaiting[1].continuation_token = None
    /\ response.some
    /\ response.v.is_truncated = Some(TRUE)
    /\ response.v.next_continuation_token = None
    /\ done # {}

====
